---- MODULE Spec2Model ----
(***************************************************************************)
(* Connection dispatch of pat (connect.go): connectAny, Connect, qsy,      *)
(* waitBusy and the modem initialisers initArdopTNC, initPactorModem,      *)
(* initVaraModem, together with the package-level state they share:        *)
(* dialing, dialCancelFunc, adTNC, pModem, varaHFModem, varaFMModem; and   *)
(* the moderation of eHaW messages (ehaw_compose.go): processEhawEmail,    *)
(* getMsgBoxList, getMsgIds.  Spec is the connection dispatch, FairSpec is *)
(* Spec with the scheduling of its tasks, EhawSpec is the moderation.      *)
(*                                                                         *)
(* Connect is called by the tasks of Tasks (CLI command, HTTP handler) and *)
(* dialCancelFunc by a further task (the operator's abort).  Every call    *)
(* keeps the sequence of side effects it has performed (trace), which is   *)
(* what the properties below are stated about.                             *)
(***************************************************************************)
EXTENDS Integers, Sequences, FiniteSets, TLC

\* Number of Connect calls in one behaviour: of the deployments that look at
\* the modem registry and at concurrent callers, and of the deployment that
\* goes through every connect string.
MaxCalls == 2
MaxUrlCalls == 1

\* Number of connect strings connectAny is called with, at most.
MaxCands == 3

\* The tasks that may call Connect.
Tasks == {"cli", "http"}

MethodArdop == "ardop"
MethodPactor == "pactor"
MethodVaraHF == "varahf"
MethodVaraFM == "varafm"
MethodAX25 == "ax25"
MethodSerialTNC == "serial-tnc"
MethodTelnet == "telnet"

Schemes ==
  {MethodArdop, MethodPactor, MethodVaraHF, MethodVaraFM, MethodAX25,
   MethodSerialTNC, MethodTelnet}

\* The schemes that have a modem handle.
ModemSchemes == {MethodArdop, MethodPactor, MethodVaraHF, MethodVaraFM}

\* Strings are sequences of tokens; "-" is the token hasSSID looks for.
MyCallPlain == <<"N0CALL">>
MyCallSSID == <<"N0CALL", "-", "1">>
UserPlain == <<"K1ABC">>
UserSSID == <<"K1ABC", "-", "7">>
NoUser == <<>>

\* hasSSID looking only at the end of the string.
hasSSIDTrailing(str) == Len(str) > 0 /\ str[Len(str)] = "-"

\* hasSSID, line 39.
hasSSID(str) == \E i \in 1..Len(str) : str[i] = "-"

\* Frequencies of the rig: the one it starts on, and the one a freq parameter asks for.
HomeFreq == "14105"
QsyFreq == "7103"

(***************************************************************************)
(* Connect strings.  A string is the empty string, a key of                *)
(* config.ConnectAliases, a string transport.ParseURL rejects, or a URL    *)
(* with the parts Connect reads: scheme, user, host, and the parameters    *)
(* freq and radio_only.                                                    *)
(***************************************************************************)
EmptyStr == [kind |-> "empty"]
BadStr == [kind |-> "bad"]
AliasStr(n) == [kind |-> "alias", name |-> n]
UrlStr(s, u, f, r) ==
  [kind |-> "url", scheme |-> s, user |-> u, host |-> "", freq |-> f, radio_only |-> r]

Urls ==
  {UrlStr(s, u, f, r) : s \in Schemes, u \in {NoUser, UserPlain, UserSSID},
                        f \in {"", QsyFreq}, r \in {"", "true", "false"}}

\* config.ConnectAliases: a chain of two aliases ending in a URL, and two
\* aliases that name each other.
ConnectAliases ==
  [hf |-> AliasStr("winlink"),
   winlink |-> UrlStr(MethodArdop, NoUser, QsyFreq, ""),
   ping |-> AliasStr("pong"),
   pong |-> AliasStr("ping")]

ConnectStrs ==
  {EmptyStr, BadStr, AliasStr("hf"), AliasStr("winlink"), AliasStr("ping"),
   AliasStr("pong")} \cup Urls

\* What becomes of a connect string whose aliases never end: Connect calls
\* itself until the goroutine's stack is exhausted.
Diverges == [kind |-> "overflow"]

\* Connect, lines 51-55: Connect calls itself with the aliased string for as
\* long as the string is a key of the table.  seen holds the keys of the
\* calls on the stack: a key that comes up again comes up for ever.
RECURSIVE Follow(_, _)
Follow(connectStr, seen) ==
  IF connectStr.kind = "alias" /\ connectStr.name \in DOMAIN ConnectAliases
  THEN IF connectStr.name \in seen
       THEN Diverges
       ELSE Follow(ConnectAliases[connectStr.name], seen \cup {connectStr.name})
  ELSE connectStr

\* Connect, lines 51-55: the string Connect goes on with after following aliases.
Resolve(connectStr) == Follow(connectStr, {})

\* transport.ParseURL as Connect uses it: an error, or the URL.
ParseURL(connectStr) ==
  IF connectStr.kind = "url"
  THEN [err |-> FALSE, url |-> connectStr]
  ELSE [err |-> TRUE, url |-> connectStr]

\* strconv.ParseBool on the values the radio_only parameter takes here.
ParseBool(v) == v = "true"

(***************************************************************************)
(* The configurations (config and fOptions) a behaviour may run under.     *)
(*   MyCall      fOptions.MyCall                                           *)
(*   RadioOnly   fOptions.RadioOnly                                        *)
(*   IgnoreBusy  fOptions.IgnoreBusy                                       *)
(*   vfo         what VFOForTransport reports: a rig, none loaded, error   *)
(*   ptt         PTTControl off, on with the rig loaded, on without it     *)
(***************************************************************************)
Configs ==
  [MyCall : {MyCallPlain, MyCallSSID}, RadioOnly : BOOLEAN, IgnoreBusy : BOOLEAN,
   vfo : {"ok", "notloaded", "error"}, ptt : {"off", "rig", "norig"}]

(***************************************************************************)
(* The deployments a behaviour is drawn from.  Each fixes who calls        *)
(* Connect, with which connect strings, and under which configurations:    *)
(*   registry      one caller going through the schemes that have a modem, *)
(*                 under every push-to-talk and ignore-busy setting        *)
(*   orchestrator  one caller going through every connect string, under    *)
(*                 every callsign, radio-only and rig setting              *)
(*   concurrent    two callers dialing at the same time                    *)
(*   priority      one caller of connectAny with a list of connect strings *)
(***************************************************************************)
Scenarios == {"registry", "orchestrator", "concurrent", "priority"}

Callers(sc) == IF sc = "concurrent" THEN Tasks ELSE {"cli"}

Inputs(sc) ==
  CASE sc = "registry" ->
         {UrlStr(s, NoUser, "", "") : s \in ModemSchemes \cup {MethodTelnet}}
    [] sc = "orchestrator" -> ConnectStrs
    [] sc = "concurrent" ->
         {UrlStr(MethodTelnet, NoUser, "", ""), UrlStr(MethodTelnet, NoUser, QsyFreq, ""),
          UrlStr(MethodArdop, NoUser, "", "")}
    [] sc = "priority" -> {}

\* The argument lists connectAny is called with.
Candidates(sc) ==
  IF sc = "priority"
  THEN UNION {[1..n -> {BadStr, UrlStr(MethodTelnet, NoUser, "", "")}] : n \in 0..MaxCands}
  ELSE {}

ConfigsOf(sc) ==
  CASE sc = "registry" ->
         {c \in Configs : c.MyCall = MyCallPlain /\ ~c.RadioOnly /\ c.vfo = "ok"}
    [] sc = "orchestrator" -> {c \in Configs : ~c.IgnoreBusy /\ c.ptt = "off"}
    [] sc \in {"concurrent", "priority"} ->
         {c \in Configs : c.MyCall = MyCallPlain /\ ~c.RadioOnly /\ c.vfo = "ok"
                            /\ ~c.IgnoreBusy /\ c.ptt = "off"}

CallLimit(sc) ==
  CASE sc = "orchestrator" -> MaxUrlCalls
    [] sc = "priority" -> MaxCands
    [] OTHER -> MaxCalls

VARIABLES
  scenario,       \* the deployment, fixed at start
  config,         \* config and fOptions, fixed at start
  task,           \* per task: the Connect call it is in
  anyCall,        \* per task: the connectAny call it is in
  calls,          \* number of Connect calls made so far
  dialing,        \* the call whose URL is in the dialing slot, 0 for nil
  dialCancelFunc, \* the call whose cancel the hook holds, 0 for the initial no-op
  handles,        \* every modem handle opened so far
  adTNC, pModem, varaHFModem, varaFMModem,  \* index into handles, 0 for nil
  dialers,        \* transport.RegisterDialer: scheme -> handle, 0 for none
  rigFreq,        \* frequency the rig is on
  ehaw            \* processEhawEmail: where it is, the out folder, the messages

\* The variables of Connect and connectAny.
connVars ==
  <<scenario, config, task, anyCall, calls, dialing, dialCancelFunc, handles, adTNC, pModem,
    varaHFModem, varaFMModem, dialers, rigFreq>>

vars == <<connVars, ehaw>>


(***************************************************************************)
(* Modem handles.  m is the modem state: the four package-level handles,   *)
(* the handles opened so far and the registered dialers.  o holds what the *)
(* outside world answers during one call:                                  *)
(*   ping     adTNC.Ping() succeeds                                        *)
(*   open     OpenTCP / OpenModem / NewModem succeeds                      *)
(*   cfg      "ok", or the post-open step that fails: "bw", "cwid", "ver"  *)
(*   setfreq  setFreq succeeds                                             *)
(***************************************************************************)
Modems ==
  [adTNC |-> adTNC, pModem |-> pModem, varaHFModem |-> varaHFModem,
   varaFMModem |-> varaFMModem, handles |-> handles, dialers |-> dialers]

NewHandle(scheme) == [scheme |-> scheme, closes |-> 0, applied |-> {}]

\* Close() on handle h.
CloseHandle(hs, h) == [hs EXCEPT ![h].closes = @ + 1]

\* A setter on handle h (SetARQBandwidth, SetCWID, SetPTT).
Apply(hs, h, what) == [hs EXCEPT ![h].applied = @ \cup what]

\* transport.RegisterDialer(scheme, h)
RegisterDialer(dl, scheme, h) == [dl EXCEPT ![scheme] = h]

\* initArdopTNC, lines 233-277.  A failed OpenTCP leaves adTNC nil; a failed
\* post-open step leaves the new handle in adTNC, open and not registered.
initArdopTNC(m, o, cfg) ==
  IF m.adTNC # 0 /\ o.ping
  THEN [m |-> m, err |-> FALSE, ev |-> <<"probe:ok">>]
  ELSE
    LET old == m.adTNC
        ev0 == IF old # 0 THEN <<"probe:fail", "close">> ELSE <<>>
        hs0 == IF old # 0 THEN CloseHandle(m.handles, old) ELSE m.handles
        h == Len(hs0) + 1
        hs1 == Append(hs0, NewHandle(MethodArdop))
        hs2 == Apply(hs1, h, {"bw", "cwid"})
        opened == [m EXCEPT !.adTNC = h, !.handles = hs1]
        registered ==
          [m EXCEPT !.adTNC = h, !.handles = hs2,
                    !.dialers = RegisterDialer(m.dialers, MethodArdop, h)]
    IN
      IF ~o.open
      THEN [m |-> [m EXCEPT !.adTNC = 0, !.handles = hs0], err |-> TRUE,
            ev |-> ev0 \o <<"openFail">>]
      ELSE IF o.cfg = "bw"
      THEN [m |-> opened, err |-> TRUE, ev |-> ev0 \o <<"open">>]
      ELSE IF o.cfg = "cwid"
      THEN [m |-> [opened EXCEPT !.handles = Apply(hs1, h, {"bw"})], err |-> TRUE,
            ev |-> ev0 \o <<"open">>]
      ELSE IF o.cfg = "ver"
      THEN [m |-> [opened EXCEPT !.handles = hs2], err |-> TRUE,
            ev |-> ev0 \o <<"open">>]
      ELSE IF cfg.ptt = "off"
      THEN [m |-> registered, err |-> FALSE, ev |-> ev0 \o <<"open", "register">>]
      ELSE IF cfg.ptt = "norig"
      THEN [m |-> registered, err |-> TRUE, ev |-> ev0 \o <<"open", "register">>]
      ELSE [m |-> [registered EXCEPT !.handles = Apply(hs2, h, {"ptt"})],
            err |-> FALSE, ev |-> ev0 \o <<"open", "register">>]

\* initPactorModem, lines 279-292.  There is no probe: an existing handle is
\* closed and a new one opened on every call.
initPactorModem(m, o, cfg) ==
  LET old == m.pModem
      ev0 == IF old # 0 THEN <<"close">> ELSE <<>>
      hs0 == IF old # 0 THEN CloseHandle(m.handles, old) ELSE m.handles
      h == Len(hs0) + 1
  IN
    IF ~o.open
    THEN [m |-> [m EXCEPT !.pModem = 0, !.handles = hs0], err |-> TRUE,
          ev |-> ev0 \o <<"openFail">>]
    ELSE [m |-> [m EXCEPT !.pModem = h,
                          !.handles = Append(hs0, NewHandle(MethodPactor)),
                          !.dialers = RegisterDialer(m.dialers, MethodPactor, h)],
          err |-> FALSE, ev |-> ev0 \o <<"open", "register">>]

\* initVaraModem, lines 294-321.  vModem is the caller's handle passed by
\* value: the new handle is assigned to the parameter, never to the
\* package-level variable, so m.varaHFModem and m.varaFMModem stay as they are.
initVaraModem(m, vModem, scheme, o, cfg) ==
  LET ev0 == IF vModem # 0 THEN <<"close">> ELSE <<>>
      hs0 == IF vModem # 0 THEN CloseHandle(m.handles, vModem) ELSE m.handles
      h == Len(hs0) + 1
      hs1 == Append(hs0, NewHandle(scheme))
      registered ==
        [m EXCEPT !.handles = hs1, !.dialers = RegisterDialer(m.dialers, scheme, h)]
  IN
    IF ~o.open
    THEN [m |-> [m EXCEPT !.handles = hs0], err |-> TRUE, ev |-> ev0 \o <<"openFail">>]
    ELSE IF cfg.ptt = "off"
    THEN [m |-> registered, err |-> FALSE, ev |-> ev0 \o <<"open", "register">>]
    ELSE IF cfg.ptt = "norig"
    THEN [m |-> registered, err |-> TRUE, ev |-> ev0 \o <<"open", "register">>]
    ELSE [m |-> [registered EXCEPT !.handles = Apply(hs1, h, {"ptt"})],
          err |-> FALSE, ev |-> ev0 \o <<"open", "register">>]

\* Connect, lines 67-93: the ensure step for the URL's scheme.
InitTNC(m, scheme, o, cfg) ==
  CASE scheme = MethodArdop -> initArdopTNC(m, o, cfg)
    [] scheme = MethodPactor -> initPactorModem(m, o, cfg)
    [] scheme = MethodVaraHF -> initVaraModem(m, m.varaHFModem, MethodVaraHF, o, cfg)
    [] scheme = MethodVaraFM -> initVaraModem(m, m.varaFMModem, MethodVaraFM, o, cfg)
    [] OTHER -> [m |-> m, err |-> FALSE, ev |-> <<>>]

(***************************************************************************)
(* Frequency control.                                                      *)
(***************************************************************************)
\* qsy without the check that a rig is loaded for the method.
qsyUnchecked(method, addr, freq, o, cfg) ==
  IF cfg.vfo = "error" \/ ~o.setfreq
  THEN [revert |-> "", err |-> TRUE, freq |-> freq, ev |-> <<"rigLookup">>]
  ELSE [revert |-> freq, err |-> FALSE, freq |-> addr,
        ev |-> <<"rigLookup", "freqRead", "freqSet">>]

\* qsy, lines 195-216.  revert is "" for the no-op, else the frequency the
\* returned closure restores.
qsy(method, addr, freq, o, cfg) ==
  IF cfg.vfo = "error"
  THEN [revert |-> "", err |-> TRUE, freq |-> freq, ev |-> <<"rigLookup">>]
  ELSE IF cfg.vfo = "notloaded"
  THEN [revert |-> "", err |-> TRUE, freq |-> freq, ev |-> <<"rigLookup">>]
  ELSE IF ~o.setfreq
  THEN [revert |-> "", err |-> TRUE, freq |-> freq, ev |-> <<"rigLookup", "freqRead">>]
  ELSE [revert |-> freq, err |-> FALSE, freq |-> addr,
        ev |-> <<"rigLookup", "freqRead", "freqSet">>]


\* A task that is not in connectAny: connectStr is the argument list, tried
\* what Connect returned for the strings tried so far, result what
\* connectAny returned ("none" before the call, "running" during it).
NoAnyCall == [connectStr |-> <<>>, tried |-> <<>>, result |-> "none"]

(***************************************************************************)
(* One Connect call.                                                       *)
(*   pc        where the call is: "idle" (no call), "busy" (in waitBusy),  *)
(*             "ready" (before line 158), "dialing" (in DialURLContext),   *)
(*             "exchange" (in exchange), "done" (returned)                 *)
(*   id        number of the call, which also names its URL, its context   *)
(*             and its cancel hook                                         *)
(*   str       the connect string Connect was called with                  *)
(*   ret       the place Connect returned from                             *)
(*   revert    revertFreq: "" when none is deferred, else the frequency    *)
(*   cancelled the call's context was cancelled while it was dialing       *)
(*   trace     the side effects of the call so far, in order               *)
(***************************************************************************)
IdleCall ==
  [pc |-> "idle", id |-> 0, str |-> EmptyStr, ret |-> "", scheme |-> "", user |-> NoUser,
   host |-> "", radioOnly |-> FALSE, freq |-> "", printed |-> FALSE,
   revert |-> "", cancelled |-> FALSE, trace |-> <<>>, success |-> FALSE]

\* Defers in which revertFreq() runs before dialCancelFunc().
DefersRevertFirst(c, hooked) ==
  (IF c.revert # "" THEN <<"revert">> ELSE <<>>)
    \o (IF hooked THEN <<"runHook">> ELSE <<>>)
    \o <<"status">>

\* Defers with revertFreq left out when the dial was cancelled.
DefersNoRevertOnCancel(c, hooked) ==
  (IF hooked THEN <<"runHook">> ELSE <<>>)
    \o (IF c.revert # "" /\ ~c.cancelled THEN <<"revert">> ELSE <<>>)
    \o <<"status">>

\* The deferred calls of Connect in the order they run (last deferred first):
\* dialCancelFunc() of line 160 when hooked, revertFreq() of line 144 when
\* c.revert is set, then the status update of line 58.
Defers(c, hooked) ==
  (IF hooked THEN <<"runHook">> ELSE <<>>)
    \o (IF c.revert # "" THEN <<"revert">> ELSE <<>>)
    \o <<"status">>

\* The call c after returning from place ret with the given result.
Returned(c, ret, success, hooked) ==
  [c EXCEPT !.pc = "done", !.ret = ret, !.success = success,
            !.trace = @ \o Defers(c, hooked)]

\* The rig's frequency after the deferred calls of c have run: revertFreq
\* sets the remembered frequency (line 214).
FreqAfterDefers(c, hooked, freq) ==
  IF \E i \in 1..Len(Defers(c, hooked)) : Defers(c, hooked)[i] = "revert"
  THEN c.revert
  ELSE freq

\* ParseError that also writes the failed attempt, with the frequency the rig
\* is on, to the event log.
ParseErrorLogged(c) ==
  Returned([c EXCEPT !.trace = <<"rigLookup", "freqRead", "log">>], "parse", FALSE, FALSE)

\* Connect, lines 62-65: ParseURL gave an error.
ParseError(c) == Returned(c, "parse", FALSE, FALSE)

\* Connect, lines 100-114: the default host interface address.
DefaultHost(url) ==
  IF url.host # "" THEN url.host
  ELSE CASE url.scheme = MethodAX25 -> "ax25port"
         [] url.scheme = MethodSerialTNC -> "serialpath"
         [] OTHER -> ""

\* Connect, lines 116-120: whether radio-only mode is requested.
RadioOnlyRequested(url, cfg) ==
  IF url.radio_only # "" THEN ParseBool(url.radio_only) ELSE cfg.RadioOnly

\* Connect, lines 50-156 up to the first poll of waitBusy, for connect string
\* connectStr as call number id.  Gives the call, the modem state and the
\* rig's frequency it leaves.
ConnectPrelude(connectStr, id, m, freq, o, cfg) ==
  LET str == Resolve(connectStr)
      c0 == [IdleCall EXCEPT !.id = id, !.str = connectStr]
      stay == [m |-> m, freq |-> freq]
  IN
    IF str = Diverges
    THEN stay @@ [c |-> [c0 EXCEPT !.pc = "overflow"]]
    ELSE IF str = EmptyStr
    THEN stay @@ [c |-> [c0 EXCEPT !.pc = "done", !.ret = "empty"]]
    ELSE IF ParseURL(str).err
    THEN stay @@ [c |-> ParseError(c0)]
    ELSE
      LET url == ParseURL(str).url
          init == InitTNC(m, url.scheme, o, cfg)
          user == IF url.user = NoUser THEN cfg.MyCall ELSE url.user
          radioOnly == RadioOnlyRequested(url, cfg)
          c1 == [c0 EXCEPT !.scheme = url.scheme, !.freq = url.freq,
                           !.radioOnly = radioOnly, !.trace = init.ev]
          c2 == [c1 EXCEPT !.user = user, !.host = DefaultHost(url)]
          c3 == [c2 EXCEPT !.user = IF radioOnly THEN user \o <<"-", "T">> ELSE user]
          q == IF url.freq # ""
               THEN qsy(url.scheme, url.freq, freq, o, cfg)
               ELSE [revert |-> "", err |-> FALSE, freq |-> freq, ev |-> <<>>]
          snapshot == IF cfg.vfo = "ok" THEN <<"rigLookup", "freqRead">> ELSE <<"rigLookup">>
          c4 == [c3 EXCEPT !.trace = @ \o q.ev]
          c5 == [c4 EXCEPT !.revert = q.revert, !.trace = @ \o snapshot,
                           !.pc = IF url.scheme = MethodArdop THEN "busy" ELSE "ready"]
          after == [m |-> init.m, freq |-> freq]
      IN
        IF init.err
        THEN after @@ [c |-> Returned(c1, "init", FALSE, FALSE)]
        ELSE IF radioOnly /\ hasSSID(cfg.MyCall)
        THEN after @@ [c |-> Returned(c2, "radioOnlySSID", FALSE, FALSE)]
        ELSE IF radioOnly /\ url.scheme \in {MethodAX25, MethodSerialTNC}
        THEN after @@ [c |-> Returned(c2, "radioOnlyScheme", FALSE, FALSE)]
        ELSE IF q.err
        THEN after @@ [c |-> Returned(c4, "qsy", FALSE, FALSE)]
        ELSE [m |-> init.m, freq |-> q.freq, c |-> c5]

\* What the outside world may answer during the prelude of a call for connectStr.
Outcomes(connectStr) ==
  LET u == Resolve(connectStr)
      isUrl == u.kind = "url"
      ardop == isUrl /\ u.scheme = MethodArdop
  IN [ping : IF ardop /\ adTNC # 0 THEN BOOLEAN ELSE {TRUE},
      open : IF isUrl /\ u.scheme \in ModemSchemes THEN BOOLEAN ELSE {TRUE},
      cfg : IF ardop THEN {"ok", "bw", "cwid", "ver"} ELSE {"ok"},
      setfreq : IF isUrl /\ u.freq # "" THEN BOOLEAN ELSE {TRUE}]

(***************************************************************************)
(* ehaw_compose.go: processEhawEmail, in which the operator moderates the  *)
(* messages submitted to eHaW, with getMsgBoxList and getMsgIds.  Strings  *)
(* are sequences of characters here.  The out folder is the sequence of    *)
(* its file names in the order Readdirnames gives them.                    *)
(***************************************************************************)
\* Length of the name in front of the extension of the files the out folder
\* starts with, and number of submitted messages, at most.
MaxNameLen == 2
MaxMsgs == 2

\* The characters of file names: those of ".b2f", and "A" for every other.
Chars == {"A", "2", "b", "f", "."}

\* Strings of up to n characters.
Strings(n) == UNION {[1..k -> Chars] : k \in 0..n}

\* The extension of a message file, ".b2f".
Ext == <<".", "b", "2", "f">>

\* The file names the out folder may hold at the start: with the extension
\* and without.
FileNames == Strings(MaxNameLen) \cup {x \o Ext : x \in Strings(MaxNameLen)}

\* The message ids postMessage may give a composed message.
NewMids == {<<"A", "A", "A">>, <<"A", "A", "2">>}

\* bytes.TrimLeft and bytes.TrimRight: drop the leading (trailing)
\* characters that are in cutset.
RECURSIVE TrimLeft(_, _)
TrimLeft(s, cutset) ==
  IF s # <<>> /\ Head(s) \in cutset THEN TrimLeft(Tail(s), cutset) ELSE s

RECURSIVE TrimRight(_, _)
TrimRight(s, cutset) ==
  IF s # <<>> /\ s[Len(s)] \in cutset
  THEN TrimRight(SubSeq(s, 1, Len(s) - 1), cutset)
  ELSE s

\* bytes.Trim(s, cutset), with cutset a string.
Trim(s, cutset) ==
  LET set == {cutset[i] : i \in 1..Len(cutset)}
  IN TrimRight(TrimLeft(s, set), set)

\* getMsgBoxList, lines 307-313, on the names Readdirnames returned.
getMsgBoxList(msgBoxFiles) ==
  LET oMsgs[i \in 0..Len(msgBoxFiles)] ==
        IF i = 0 THEN <<>>
        ELSE LET name == msgBoxFiles[i]
             IN IF Len(name) > Len(Ext)
                   /\ SubSeq(name, Len(name) - Len(Ext) + 1, Len(name)) = Ext
                THEN Append(oMsgs[i - 1], Trim(name, Ext))
                ELSE oMsgs[i - 1]
  IN oMsgs[Len(msgBoxFiles)]

\* getMsgIds, lines 317-332: the elements of after that are not in before.
getMsgIds(before, after) ==
  SelectSeq(after, LAMBDA x : \A i \in 1..Len(before) : before[i] # x)

\* updateEhawMsg(msgId, status, mid) on the message records.
updateEhawMsg(status, msg, newStatus, mid) ==
  [status EXCEPT ![msg] = [status |-> newStatus, mid |-> mid]]

\* What the outside world may answer while a message is accepted: whether
\* the out folder can be read before and after composing, and the message
\* id of the file composing writes, <<>> when it writes none.
AcceptOutcomes ==
  [before : BOOLEAN, after : BOOLEAN, composed : NewMids \cup {<<>>}]

\* processEhawEmail before it is called.
NoEhaw ==
  [pc |-> "idle", out |-> <<>>, msg |-> 0, input |-> <<>>, status |-> <<>>,
   outBefore |-> <<>>, beforeList |-> <<>>, afterList |-> <<>>, listed |-> FALSE]

\* processEhawEmail, lines 139-182: the loop body for one message under the
\* operator's input; "A" with what the outside world answers in o.  It
\* ends in "outError" when the out folder cannot be read (line 162), and in
\* "panic" when newMsgId[0] is evaluated on an empty list (line 180).
Moderate(e, input, o) ==
  LET msg == e.msg
      e1 == [e EXCEPT !.input = Append(@, input)]
      next == [e1 EXCEPT !.msg = msg + 1,
                         !.pc = IF msg = Len(e.status) THEN "update" ELSE "moderate"]
  IN
    IF input = "D"
    THEN [next EXCEPT !.status = updateEhawMsg(e.status, msg, "Declined", <<>>)]
    ELSE IF input # "A"
    THEN next
    ELSE IF ~o.before
    THEN [e1 EXCEPT !.pc = "outError"]
    ELSE
      LET beforeList == getMsgBoxList(e.out)
          out == IF o.composed = <<>> THEN e.out ELSE Append(e.out, o.composed \o Ext)
          afterList == IF o.after THEN getMsgBoxList(out) ELSE <<>>
          newMsgId == getMsgIds(beforeList, afterList)
          lists == [outBefore |-> e.out, beforeList |-> beforeList,
                    afterList |-> afterList, listed |-> o.after]
      IN IF newMsgId = <<>>
         THEN [(lists @@ e1) EXCEPT !.out = out, !.pc = "panic"]
         ELSE [(lists @@ next) EXCEPT
                 !.out = out,
                 !.status = updateEhawMsg(e.status, msg, "Accepted", newMsgId[1])]

TypeOK ==
  /\ config \in Configs
  /\ scenario \in Scenarios
  /\ calls \in 0..CallLimit(scenario)
  /\ dialing \in 0..calls
  /\ dialCancelFunc \in 0..calls
  /\ rigFreq \in {HomeFreq, QsyFreq}
  /\ \A t \in Tasks :
       /\ anyCall[t].result \in {"none", "running", "true", "false"}
       /\ Len(anyCall[t].tried) <= Len(anyCall[t].connectStr)
       /\ Len(anyCall[t].connectStr) <= MaxCands
  /\ ehaw.pc \in {"idle", "moderate", "update", "returned", "outError", "panic"}
  /\ ehaw.msg \in 0..(MaxMsgs + 1)
  /\ Len(ehaw.out) <= 1 + MaxMsgs
  /\ \A t \in Tasks :
       task[t].pc \in {"idle", "busy", "sleep", "ready", "dialing", "exchange", "done",
                       "overflow"}

\* The process has ended with a fatal stack overflow: no task runs any more.
Crashed == \E t \in Tasks : task[t].pc = "overflow"

Init ==
  /\ scenario \in Scenarios
  /\ config \in ConfigsOf(scenario)
  /\ task = [t \in Tasks |-> IdleCall]
  /\ anyCall = [t \in Tasks |-> NoAnyCall]
  /\ calls = 0
  /\ dialing = 0
  /\ dialCancelFunc = 0
  /\ handles = <<>>
  /\ adTNC = 0 /\ pModem = 0 /\ varaHFModem = 0 /\ varaFMModem = 0
  /\ dialers = [s \in ModemSchemes |-> 0]
  /\ rigFreq = HomeFreq
  /\ ehaw = NoEhaw

\* A task calls Connect(connectStr) and runs it up to waitBusy, the dial or a
\* return.  Lines 50-156 touch neither dialing nor dialCancelFunc, so they
\* are taken as one step.
ConnectBegin(t, connectStr, o) ==
  /\ task[t].pc = "idle"
  /\ ~Crashed
  /\ calls < CallLimit(scenario)
  /\ LET r == ConnectPrelude(connectStr, calls + 1, Modems, rigFreq, o, config)
     IN /\ task' = [task EXCEPT ![t] = r.c]
        /\ adTNC' = r.m.adTNC
        /\ pModem' = r.m.pModem
        /\ varaHFModem' = r.m.varaHFModem
        /\ varaFMModem' = r.m.varaFMModem
        /\ handles' = r.m.handles
        /\ dialers' = r.m.dialers
        /\ rigFreq' = r.freq
  /\ calls' = calls + 1
  /\ UNCHANGED <<ehaw, scenario, config, anyCall, dialing, dialCancelFunc>>

\* waitBusy, lines 218-231: one evaluation of the loop condition and of the
\* body up to the sleep of line 229.
waitBusy(c, busy, cfg) ==
  IF ~busy THEN [c EXCEPT !.pc = "ready"]
  ELSE IF ~c.printed /\ cfg.IgnoreBusy THEN [c EXCEPT !.pc = "ready"]
  ELSE [c EXCEPT !.printed = TRUE, !.pc = "sleep"]

WaitBusy(t, busy) ==
  /\ ~Crashed
  /\ task[t].pc = "busy"
  /\ task' = [task EXCEPT ![t] = waitBusy(task[t], busy, config)]
  /\ UNCHANGED <<ehaw, scenario, config, anyCall, calls, dialing,
                 dialCancelFunc, handles, adTNC, pModem, varaHFModem,
                 varaFMModem, dialers, rigFreq>>

\* waitBusy, line 229: the sleep is over, the loop condition comes next.
Sleep(t) ==
  /\ ~Crashed
  /\ task[t].pc = "sleep"
  /\ task' = [task EXCEPT ![t].pc = "busy"]
  /\ UNCHANGED <<ehaw, scenario, config, anyCall, calls, dialing,
                 dialCancelFunc, handles, adTNC, pModem, varaHFModem,
                 varaFMModem, dialers, rigFreq>>

\* Connect, lines 158-167: the hook, the marker, the status update, and the
\* dial is issued.
DialBegin(c) ==
  [c EXCEPT !.pc = "dialing", !.trace = @ \o <<"hook", "mark", "status", "dial">>]

DialStart(t) ==
  /\ ~Crashed
  /\ task[t].pc = "ready"
  /\ dialCancelFunc' = task[t].id
  /\ dialing' = task[t].id
  /\ task' = [task EXCEPT ![t] = DialBegin(task[t])]
  /\ UNCHANGED <<ehaw, scenario, config, anyCall, calls, handles, adTNC,
                 pModem, varaHFModem, varaFMModem, dialers, rigFreq>>

\* The calls after another task has run the hook of call id: every call
\* that is dialing has seen an abort request ("abort"), and the context of
\* call id is cancelled ("cancel").
CancelCtx(tk, id) ==
  [t \in Tasks |->
     IF tk[t].pc # "dialing" \/ tk[t].cancelled THEN tk[t]
     ELSE
       LET seen == \E i \in 1..Len(tk[t].trace) : tk[t].trace[i] = "abort"
           abort == IF seen THEN <<>> ELSE <<"abort">>
       IN IF tk[t].id = id
          THEN [tk[t] EXCEPT !.cancelled = TRUE, !.trace = @ \o abort \o <<"cancel">>]
          ELSE [tk[t] EXCEPT !.trace = @ \o abort]]

\* Another task invokes dialCancelFunc (lines 36 and 159).
Cancel ==
  /\ ~Crashed
  /\ dialCancelFunc # 0
  /\ dialing' = 0
  /\ task' = CancelCtx(task, dialCancelFunc)
  /\ UNCHANGED <<ehaw, scenario, config, anyCall, calls, dialCancelFunc,
                 handles, adTNC, pModem, varaHFModem, varaFMModem, dialers,
                 rigFreq>>

\* DialEnd that writes the event-log record only for a dial that failed.
DialEndLogsFailures(c, res) ==
  LET c1 == [c EXCEPT !.trace = @ \o <<"dialRet", "unmark", "status">>]
  IN IF res = "ok" THEN [c1 EXCEPT !.pc = "exchange"]
     ELSE Returned([c1 EXCEPT !.trace = @ \o <<"log">>], res, FALSE, TRUE)

\* Connect, lines 167-182: DialURLContext returns with outcome res ("ok",
\* "fail" or "cancelled"), the marker is cleared and the attempt logged.  A
\* dial whose context was cancelled returns context.Canceled, and no other
\* dial does.
DialEnd(c, res) ==
  LET c1 == [c EXCEPT !.trace = @ \o <<"dialRet", "unmark", "status", "log">>]
  IN IF res = "ok" THEN [c1 EXCEPT !.pc = "exchange"]
     ELSE Returned(c1, res, FALSE, TRUE)

DialReturn(t, res) ==
  /\ ~Crashed
  /\ task[t].pc = "dialing"
  /\ res = "cancelled" <=> task[t].cancelled
  /\ LET c == DialEnd(task[t], res)
     IN /\ task' = [task EXCEPT ![t] = c]
        /\ dialing' = 0
        /\ rigFreq' = IF c.pc = "done" THEN FreqAfterDefers(task[t], TRUE, rigFreq)
                       ELSE rigFreq
  /\ UNCHANGED <<ehaw, scenario, config, anyCall, calls, dialCancelFunc,
                 handles, adTNC, pModem, varaHFModem, varaFMModem, dialers>>

\* Connect, lines 184-192: exchange returns, and Connect with it.
ExchangeEnd(c, ok) == Returned(c, "exchange", ok, TRUE)

Exchange(t, ok) ==
  /\ ~Crashed
  /\ task[t].pc = "exchange"
  /\ task' = [task EXCEPT ![t] = ExchangeEnd(task[t], ok)]
  /\ dialing' = 0
  /\ rigFreq' = FreqAfterDefers(task[t], TRUE, rigFreq)
  /\ UNCHANGED <<ehaw, scenario, config, anyCall, calls, dialCancelFunc,
                 handles, adTNC, pModem, varaHFModem, varaFMModem, dialers>>

\* connectAny that goes on to the next connect string after a Connect that
\* returned true.
connectAnyTriesAll(a, c) ==
  IF a.result # "running" THEN a
  ELSE [a EXCEPT !.tried = Append(@, [str |-> c.str, success |-> c.success, ret |-> c.ret])]

\* connectAny that returns false when a dial was cancelled.
connectAnyStopsOnCancel(a, c) ==
  IF a.result # "running" THEN a
  ELSE [a EXCEPT !.tried = Append(@, [str |-> c.str, success |-> c.success, ret |-> c.ret]),
                 !.result = IF c.success THEN "true"
                            ELSE IF c.ret = "cancelled" THEN "false" ELSE @]

\* connectAny, lines 43-45: Connect has returned for the connect string
\* reached; true ends the loop.  A caller of Connect itself has no loop.
connectAny(a, c) ==
  IF a.result # "running" THEN a
  ELSE [a EXCEPT !.tried = Append(@, [str |-> c.str, success |-> c.success, ret |-> c.ret]),
                 !.result = IF c.success THEN "true" ELSE @]

\* The connect string the loop of connectAny is at, the empty string when
\* there is none.
NextStr(a) ==
  IF a.result = "running" /\ Len(a.tried) < Len(a.connectStr)
  THEN a.connectStr[Len(a.tried) + 1]
  ELSE EmptyStr

\* A task calls connectAny(connectStr...), line 41.
ConnectAnyBegin(t, connectStr) ==
  /\ ~Crashed
  /\ task[t].pc = "idle" /\ anyCall[t].result = "none"
  /\ anyCall' = [anyCall EXCEPT ![t] =
                   [connectStr |-> connectStr, tried |-> <<>>, result |-> "running"]]
  /\ UNCHANGED <<ehaw, scenario, config, task, calls, dialing, dialCancelFunc,
                 handles, adTNC, pModem, varaHFModem, varaFMModem, dialers,
                 rigFreq>>

\* connectAny, lines 42-43: the loop calls Connect with the next string.
ConnectAnyCall(t, o) ==
  /\ anyCall[t].result = "running"
  /\ Len(anyCall[t].tried) < Len(anyCall[t].connectStr)
  /\ ConnectBegin(t, NextStr(anyCall[t]), o)

\* connectAny, line 47: the loop is over, connectAny returns false.
ConnectAnyEnd(t) ==
  /\ ~Crashed
  /\ task[t].pc = "idle" /\ anyCall[t].result = "running"
  /\ Len(anyCall[t].tried) = Len(anyCall[t].connectStr)
  /\ anyCall' = [anyCall EXCEPT ![t].result = "false"]
  /\ UNCHANGED <<ehaw, scenario, config, task, calls, dialing, dialCancelFunc,
                 handles, adTNC, pModem, varaHFModem, varaFMModem, dialers,
                 rigFreq>>

\* Connect has returned to its caller: connectAny (lines 43-45), or the
\* caller of Connect itself, which goes on.
Resume(t) ==
  /\ ~Crashed
  /\ task[t].pc = "done"
  /\ task' = [task EXCEPT ![t] = IdleCall]
  /\ anyCall' = [anyCall EXCEPT ![t] = connectAny(anyCall[t], task[t])]
  /\ UNCHANGED <<ehaw, scenario, config, calls, dialing, dialCancelFunc,
                 handles, adTNC, pModem, varaHFModem, varaFMModem, dialers,
                 rigFreq>>

Next ==
  \/ \E t \in Callers(scenario), connectStr \in Inputs(scenario) :
       \E o \in Outcomes(connectStr) : ConnectBegin(t, connectStr, o)
  \/ \E t \in Tasks, busy \in BOOLEAN : WaitBusy(t, busy)
  \/ \E t \in Tasks : Sleep(t)
  \/ \E t \in Tasks : DialStart(t)
  \/ Cancel
  \/ \E t \in Tasks, res \in {"ok", "fail", "cancelled"} : DialReturn(t, res)
  \/ \E t \in Tasks, ok \in BOOLEAN : Exchange(t, ok)
  \/ \E t \in Tasks : Resume(t)
  \/ \E t \in Callers(scenario), connectStr \in Candidates(scenario) :
       ConnectAnyBegin(t, connectStr)
  \/ \E t \in Tasks : \E o \in Outcomes(NextStr(anyCall[t])) : ConnectAnyCall(t, o)
  \/ \E t \in Tasks : ConnectAnyEnd(t)

Spec == Init /\ [][Next]_vars

\* Spec with the scheduling of the tasks: a task that is in waitBusy polls
\* the channel, its sleep of line 229 ends, and a task that has left
\* waitBusy goes on to the dial (lines 158-167).  What the channel, the dial
\* and the exchange answer, and when, is theirs.
FairSpec ==
  /\ Spec
  /\ \A t \in Tasks :
       /\ WF_vars(\E busy \in BOOLEAN : WaitBusy(t, busy))
       /\ WF_vars(Sleep(t))
       /\ WF_vars(DialStart(t))

\* The out folder at the start: empty, or with one file.
Folders == {<<>>} \cup {<<name>> : name \in FileNames}

\* The operator's input after TrimSpace and ToUpper (lines 141-142):
\* accept, decline, ignore, or anything else.
OperatorInputs == {"A", "D", "I", "?"}

EhawInit ==
  /\ ehaw \in {[NoEhaw EXCEPT !.out = f] : f \in Folders}
  /\ scenario = "priority"
  /\ config \in ConfigsOf(scenario)
  /\ task = [t \in Tasks |-> IdleCall]
  /\ anyCall = [t \in Tasks |-> NoAnyCall]
  /\ calls = 0
  /\ dialing = 0
  /\ dialCancelFunc = 0
  /\ handles = <<>>
  /\ adTNC = 0 /\ pModem = 0 /\ varaHFModem = 0 /\ varaFMModem = 0
  /\ dialers = [s \in ModemSchemes |-> 0]
  /\ rigFreq = HomeFreq

\* processEhawEmail, lines 108-126: getEhawEmail returns n submitted
\* messages, or an error.
GetEhawEmail(n, ok) ==
  /\ ehaw.pc = "idle"
  /\ ehaw' = IF ~ok THEN [ehaw EXCEPT !.pc = "returned"]
             ELSE [ehaw EXCEPT !.pc = IF n = 0 THEN "update" ELSE "moderate",
                               !.msg = 1,
                               !.status = [i \in 1..n |->
                                            [status |-> "Submitted", mid |-> <<>>]]]
  /\ UNCHANGED connVars

\* processEhawEmail, lines 127-185: one pass of the loop.
ModerateMsg(input, o) ==
  /\ ehaw.pc = "moderate"
  /\ ehaw' = Moderate(ehaw, input, o)
  /\ UNCHANGED connVars

\* processEhawEmail, lines 187-199: updateSentEhawMsgStatus and the return.
UpdateSent ==
  /\ ehaw.pc = "update"
  /\ ehaw' = [ehaw EXCEPT !.pc = "returned"]
  /\ UNCHANGED connVars

EhawNext ==
  \/ \E n \in 0..MaxMsgs, ok \in BOOLEAN : GetEhawEmail(n, ok)
  \/ \E input \in OperatorInputs, o \in AcceptOutcomes : ModerateMsg(input, o)
  \/ UpdateSent

EhawSpec == EhawInit /\ [][EhawNext]_vars

(***************************************************************************)
(* Properties.                                                             *)
(***************************************************************************)
Has(c, e) == \E i \in 1..Len(c.trace) : c.trace[i] = e

Count(c, e) == Cardinality({i \in 1..Len(c.trace) : c.trace[i] = e})

\* Position of the first e in the trace of c, 0 when there is none.
Pos(c, e) ==
  IF Has(c, e) THEN CHOOSE i \in 1..Len(c.trace) :
                      c.trace[i] = e /\ \A j \in 1..(i - 1) : c.trace[j] # e
  ELSE 0

\* The connect string of call c parses, and the URL it parses to.
Parses(c) == c.id # 0 /\ ~ParseURL(Resolve(c.str)).err
UrlOf(c) == ParseURL(Resolve(c.str)).url

\* C1: in a Connect call whose qsy succeeded (the frequency was set), the
\* revert runs exactly once, after the dial has returned, whatever the dial's
\* outcome; in any other call it does not run; and it never runs before the
\* call returns.
C1_RevertOnceAfterDial ==
  \A t \in Tasks :
    LET c == task[t] IN
      /\ c.pc # "done" => Count(c, "revert") = 0
      /\ c.pc = "done" =>
           IF Has(c, "freqSet")
           THEN /\ Count(c, "revert") = 1
                /\ c.ret \in {"exchange", "fail", "cancelled"}
                /\ Has(c, "dialRet")
                /\ Pos(c, "dialRet") < Pos(c, "revert")
           ELSE Count(c, "revert") = 0

\* Two calls that set the frequency have returned, one after a cancelled dial
\* and one after a dial that succeeded, and each has reverted once.
C1_Witness ==
  \E t1, t2 \in Tasks :
    /\ task[t1].pc = "done" /\ task[t1].ret = "cancelled"
    /\ Has(task[t1], "freqSet") /\ Count(task[t1], "revert") = 1
    /\ task[t2].pc = "done" /\ task[t2].ret = "exchange"
    /\ Has(task[t2], "freqSet") /\ Count(task[t2], "revert") = 1

\* C2: when another task runs the cancellation hook while a Connect call is
\* blocked in the dial, that call returns false.
C2_AbortedDialReturnsFalse ==
  \A t \in Tasks :
    task[t].pc = "done" /\ Has(task[t], "abort") => ~task[t].success

\* C3: while a Connect call is blocked in the dial and has not been
\* cancelled, the hook in dialCancelFunc is the one that cancels that very
\* dial, and the dialing slot holds its URL.
C3_HookIsOfTheDialInFlight ==
  \A t \in Tasks :
    task[t].pc = "dialing" /\ ~task[t].cancelled =>
      dialCancelFunc = task[t].id /\ dialing = task[t].id

\* C4: at most one dial is in flight: of two calls that are in the dial, the
\* earlier one has been cancelled.
C4_OneDialInFlight ==
  \A t1, t2 \in Tasks :
    /\ task[t1].pc = "dialing" /\ task[t2].pc = "dialing"
    /\ task[t1].id < task[t2].id
    => task[t1].cancelled

\* The events of a trace that touch a modem, the rig or the transport.
ModemEvents == {"open", "openFail", "close", "register", "probe:ok", "probe:fail"}
RigEvents == {"rigLookup", "freqRead", "freqSet", "revert"}
DialEvents == {"hook", "mark", "dial", "dialRet", "unmark", "log", "runHook"}

\* C5: a Connect call whose connect string fails to parse returns false and
\* has touched no modem, no dialer, no frequency and no dial.
C5_ParseFailureHasNoEffect ==
  \A t \in Tasks :
    LET c == task[t] IN
      c.id # 0 /\ Resolve(c.str) \notin {EmptyStr, Diverges} /\ ~Parses(c) =>
        /\ c.pc = "done" /\ ~c.success
        /\ \A e \in ModemEvents \cup RigEvents \cup DialEvents : ~Has(c, e)

\* A call with an unparsable connect string has returned.
C5_Witness ==
  \E t \in Tasks :
    task[t].pc = "done" /\ task[t].str = BadStr /\ task[t].ret = "parse"

\* C6: for every scheme at most one handle is open, and no handle has been
\* closed twice.
C6_OneOpenHandlePerScheme ==
  /\ \A h1, h2 \in 1..Len(handles) :
       /\ handles[h1].scheme = handles[h2].scheme
       /\ handles[h1].closes = 0 /\ handles[h2].closes = 0
       => h1 = h2
  /\ \A h \in 1..Len(handles) : handles[h].closes <= 1

\* The open handles of scheme s.
OpenHandles(s) ==
  {h \in 1..Len(handles) : handles[h].scheme = s /\ handles[h].closes = 0}

\* Task t calls Connect in this step with a URL of a scheme that has a modem.
Ensures(t) ==
  /\ task[t].pc = "idle" /\ task'[t].pc # "idle"
  /\ Parses(task'[t]) /\ UrlOf(task'[t]).scheme \in ModemSchemes

\* C7: ensure on a scheme whose handle is healthy (its probe passes, or it
\* has no probe and exists) neither closes nor opens a handle; ensure on a
\* scheme whose handle is unhealthy closes the old handle once, before it
\* opens the new one.
C7_EnsureReusesHealthyHandle ==
  [][\A t \in Tasks :
       Ensures(t) =>
         LET c == task'[t]
             s == UrlOf(c).scheme
             healthy == IF s = MethodArdop THEN Has(c, "probe:ok")
                        ELSE OpenHandles(s) # {}
             unhealthy == s = MethodArdop /\ Has(c, "probe:fail")
         IN /\ healthy => handles' = handles
            /\ unhealthy =>
                 /\ Count(c, "close") = 1
                 /\ \A h \in OpenHandles(s) : handles'[h].closes = 1
                 /\ Has(c, "open") => Pos(c, "close") < Pos(c, "open")]_vars

\* C8: when ensure returns an error, the handle registered as the scheme's
\* dialer is the one registered before if that one is still open, else none:
\* never the handle this call opened nor one that is closed.
C8_FailedEnsureRegistersNothing ==
  \A t \in Tasks :
    LET c == task[t] IN
      c.pc = "done" /\ c.ret = "init" =>
        LET d == dialers[c.scheme]
        IN d = 0 \/ (handles[d].closes = 0 /\ ~(Has(c, "open") /\ d = Len(handles)))

\* Radio-only mode is requested for call c: by the URL's radio_only
\* parameter, or without one by the global option.
RadioOnlyCall(c) ==
  /\ Parses(c)
  /\ IF UrlOf(c).radio_only # "" THEN UrlOf(c).radio_only = "true"
     ELSE config.RadioOnly

\* C9 as stated: with radio-only requested and a callsign with an SSID,
\* Connect returns false and no modem handle is opened, closed or probed and
\* no dial is issued.
C9_RadioOnlySSIDContactsNothing ==
  \A t \in Tasks :
    LET c == task[t] IN
      RadioOnlyCall(c) /\ config.MyCall = MyCallSSID =>
        /\ c.pc = "done" /\ ~c.success
        /\ \A e \in ModemEvents \cup DialEvents : ~Has(c, e)

\* C9 as amended: with radio-only requested and a callsign with an SSID,
\* Connect returns false after the ensure step of the URL's scheme: no
\* frequency is read or set, the hook and the marker are not set, no dial is
\* issued and nothing is logged.
C9_RadioOnlySSIDDialsNothing ==
  \A t \in Tasks :
    LET c == task[t] IN
      RadioOnlyCall(c) /\ config.MyCall = MyCallSSID =>
        /\ c.pc = "done" /\ ~c.success
        /\ \A e \in RigEvents \cup DialEvents : ~Has(c, e)

\* A radio-only call under a callsign with an SSID has returned after the
\* ensure step opened and registered a modem handle.
C9_Witness ==
  \E t \in Tasks :
    /\ task[t].pc = "done" /\ task[t].ret = "radioOnlySSID"
    /\ RadioOnlyCall(task[t]) /\ config.MyCall = MyCallSSID
    /\ Has(task[t], "open") /\ Has(task[t], "register")

\* C10: when no rig is loaded for the scheme, a Connect call with a freq
\* parameter returns false; it sets no hook and no marker, issues no dial
\* and writes no event-log record.
C10_NoRigNoDial ==
  \A t \in Tasks :
    LET c == task[t] IN
      Parses(c) /\ UrlOf(c).freq # "" /\ config.vfo = "notloaded" =>
        /\ c.pc = "done" /\ ~c.success
        /\ \A e \in DialEvents : ~Has(c, e)

\* A call with a freq parameter has returned from the failed qsy, after its
\* ensure step had succeeded.
C10_Witness ==
  \E t \in Tasks :
    /\ task[t].pc = "done" /\ task[t].ret = "qsy" /\ config.vfo = "notloaded"
    /\ UrlOf(task[t]).freq # "" /\ Has(task[t], "register")

\* C12: a Connect call's dial returns with the dialing marker nil; in its
\* trace the marker is cleared after the dial returned, the status update
\* follows the clearing, and exactly one event-log record is written, after
\* the dial returned; a call that has not issued the dial, or whose dial has
\* not returned, has written no record.
C12_DialEndClearsNotifiesLogsOnce ==
  [][\A t \in Tasks :
       LET c == task'[t] IN
         /\ task[t].pc = "dialing" /\ c.pc # "dialing" =>
              /\ dialing' = 0
              /\ Has(c, "dialRet")
         /\ Has(c, "dialRet") =>
              /\ Has(c, "dial") /\ Pos(c, "dial") < Pos(c, "dialRet")
              /\ Count(c, "unmark") = 1 /\ Pos(c, "dialRet") < Pos(c, "unmark")
              /\ \E i \in 1..Len(c.trace) :
                   c.trace[i] = "status" /\ Pos(c, "unmark") < i
              /\ Count(c, "log") = 1 /\ Pos(c, "dialRet") < Pos(c, "log")
         /\ ~Has(c, "dialRet") => Count(c, "log") = 0]_vars

\* One call has returned from a cancelled dial and another from a dial that
\* succeeded, each with one event-log record, and the marker is nil.
C12_Witness ==
  \E t1, t2 \in Tasks :
    /\ task[t1].pc = "done" /\ task[t1].ret = "cancelled"
    /\ Count(task[t1], "log") = 1
    /\ task[t2].pc = "exchange" /\ Count(task[t2], "log") = 1
    /\ dialing = 0

\* C14 as stated: in a Connect call that obtained a revert action, the revert
\* runs before the call's cancellation hook is run on exit, which cancels
\* the attempt's context.
C14_RevertBeforeExitHook ==
  \A t \in Tasks :
    LET c == task[t] IN
      c.pc = "done" /\ Has(c, "freqSet") =>
        Has(c, "revert") /\ (Has(c, "runHook") => Pos(c, "revert") < Pos(c, "runHook"))

\* C14 as amended: a Connect call that obtained a revert action has set its
\* cancellation hook; on exit the hook runs first, then the revert runs,
\* once, and the status update follows it, for every dial outcome.
C14_RevertAfterExitHook ==
  \A t \in Tasks :
    LET c == task[t] IN
      c.pc = "done" /\ Has(c, "freqSet") =>
        /\ c.ret \in {"exchange", "fail", "cancelled"}
        /\ Count(c, "runHook") = 1 /\ Count(c, "revert") = 1
        /\ Pos(c, "dialRet") < Pos(c, "runHook")
        /\ Pos(c, "runHook") < Pos(c, "revert")
        /\ c.trace[Len(c.trace)] = "status" /\ Pos(c, "revert") = Len(c.trace) - 1

\* A call that set the frequency has returned from a dial that failed, and
\* its hook and its revert have both run.
C14_Witness ==
  \E t \in Tasks :
    /\ task[t].pc = "done" /\ task[t].ret = "fail"
    /\ Has(task[t], "freqSet") /\ Has(task[t], "runHook") /\ Has(task[t], "revert")

\* The post-open settings the configuration asks of an ardop handle.
ArdopSettings == {"bw", "cwid"} \cup (IF config.ptt = "off" THEN {} ELSE {"ptt"})

\* C18: when initArdopTNC returns success, adTNC is the handle registered as
\* the ardop dialer and has had every configured post-open setting applied.
C18_ArdopSuccessIsRegisteredAndConfigured ==
  [][\A t \in Tasks :
       Ensures(t) /\ UrlOf(task'[t]).scheme = MethodArdop /\ task'[t].ret # "init" =>
         /\ adTNC' # 0
         /\ dialers'[MethodArdop] = adTNC'
         /\ ArdopSettings \subseteq handles'[adTNC'].applied]_vars

\* C19: a Connect call that issues a dial in radio-only mode dials with an
\* identity of the form base + "-T" in which base has no "-".
C19_RadioOnlyIdentityHasNoSSID ==
  \A t \in Tasks :
    LET c == task[t] IN
      Has(c, "dial") /\ RadioOnlyCall(c) =>
        \E base \in {MyCallPlain, MyCallSSID, UserPlain, UserSSID} :
          /\ c.user = base \o <<"-", "T">>
          /\ \A i \in 1..Len(base) : base[i] # "-"

\* C13: a Connect call that is in waitBusy leaves it: it reaches the dial
\* step or returns, whatever the channel reports and whatever IgnoreBusy is.
C13_WaitBusyEnds ==
  \A t \in Tasks :
    (task[t].pc \in {"busy", "sleep"}) ~> (task[t].pc \notin {"busy", "sleep"})

\* C15: alias resolution ends for every alias table, one with a cycle
\* included: no Connect call exhausts the stack following aliases.
C15_AliasResolutionEnds ==
  \A t \in Tasks : task[t].pc # "overflow"

\* C11: connectAny calls Connect with its connect strings in the order
\* given, one at a time; it returns true as soon as a Connect has returned
\* true, with no later string tried; and it returns false exactly when
\* Connect has returned false for every string, the empty list included.
C11_ConnectAnyInOrderUntilSuccess ==
  \A t \in Tasks :
    LET a == anyCall[t]
        n == Len(a.tried)
        inCall == task[t].pc # "idle"
    IN a.result # "none" =>
         /\ n <= Len(a.connectStr)
         /\ \A i \in 1..n : a.tried[i].str = a.connectStr[i]
         /\ \A i \in 1..(n - 1) : ~a.tried[i].success
         /\ inCall => /\ a.result = "running" /\ n < Len(a.connectStr)
                      /\ task[t].str = a.connectStr[n + 1]
         /\ calls = n + (IF inCall THEN 1 ELSE 0)
         /\ a.result = "true" <=> n > 0 /\ a.tried[n].success
         /\ a.result = "false" => n = Len(a.connectStr)
         /\ a.result = "running" => \A i \in 1..n : ~a.tried[i].success

\* connectAny has returned true for three connect strings of which the
\* first failed to parse and the second was dialed: Connect was called
\* twice.
C11_Witness ==
  \E t \in Tasks :
    /\ anyCall[t].result = "true" /\ Len(anyCall[t].connectStr) = 3
    /\ Len(anyCall[t].tried) = 2 /\ anyCall[t].tried[1].ret = "parse"
    /\ anyCall[t].tried[2].ret = "exchange" /\ calls = 2

\* C20: connectAny goes on after a Connect whose dial was cancelled as after
\* any other that returned false: while a string is left it calls Connect
\* with the next one, and it returns false only when none is left.
C20_CancelledCandidateIsSkipped ==
  [][\A t \in Tasks :
       LET a == anyCall[t]
           n == Len(a.tried) + 1
       IN /\ a.result = "running"
          /\ task[t].pc = "done" /\ task[t].ret = "cancelled" /\ task'[t].pc = "idle"
          => /\ ~task[t].success
             /\ anyCall'[t].tried = Append(a.tried, [str |-> a.connectStr[n],
                                                     success |-> FALSE, ret |-> "cancelled"])
             /\ anyCall'[t].result = "running"
             /\ n < Len(a.connectStr) => NextStr(anyCall'[t]) = a.connectStr[n + 1]]_vars

\* The first connect string's dial was cancelled, and connectAny is in the
\* dial of the second, which is not cancelled.
C20_Witness ==
  \E t \in Tasks :
    /\ anyCall[t].result = "running" /\ Len(anyCall[t].tried) = 1
    /\ anyCall[t].tried[1].ret = "cancelled"
    /\ task[t].pc = "dialing" /\ ~task[t].cancelled

\* The list of X, in folder order, for the names of folder of the form
\* X + ".b2f" with X non-empty.
MessageIdsOf(folder) ==
  LET isMsg(name) == \E k \in 1..Len(name) : name = SubSeq(name, 1, k) \o Ext
      msgs == SelectSeq(folder, isMsg)
  IN [i \in 1..Len(msgs) |-> SubSeq(msgs[i], 1, Len(msgs[i]) - Len(Ext))]

\* C16: what getMsgBoxList returned for the out folder, before and after
\* composing, is the list of X of the file names X + ".b2f" in it, X
\* non-empty, and nothing for any other name.
C16_MsgBoxListIsTheNamesWithoutExtension ==
  ehaw.input # <<>> /\ ehaw.pc # "outError" =>
    /\ ehaw.beforeList = MessageIdsOf(ehaw.outBefore)
    /\ ehaw.listed => ehaw.afterList = MessageIdsOf(ehaw.out)

\* C17: for every message the operator accepted with the out folder
\* readable, the loop has gone on and the message is Accepted with the id
\* of an entry that is in the list after composing and not in the list
\* before.
C17_AcceptCompletesWithNewMid ==
  \A m \in 1..Len(ehaw.input) :
    ehaw.input[m] = "A" /\ ehaw.pc # "outError" =>
      /\ ehaw.pc # "panic"
      /\ ehaw.status[m].status = "Accepted"
      /\ \E i \in 1..Len(ehaw.afterList) : ehaw.afterList[i] = ehaw.status[m].mid

====
